---- MODULE Spec2Model ----
(***************************************************************************)
(* PubMedFetcher (src/src/get_papers_NCBI/get_papers_list.py): the         *)
(* paginated identifier search, the batched detail retrieval with its      *)
(* early-stop quota, the per-article record extraction and the affiliation *)
(* classifier.                                                             *)
(*                                                                         *)
(* Text is a sequence of one-character strings, so that lower-casing and   *)
(* substring containment are computed, not assumed.  An optional text (the *)
(* result of findtext) is a record [some |-> BOOLEAN, text |-> Text]:      *)
(* some = FALSE stands for None.                                           *)
(***************************************************************************)
EXTENDS Integers, Sequences, FiniteSets, TLC

VARIABLES
  \* ---- PubMedFetcher instance (__init__, lines 69-74)
  max_results,    \* self.max_results: the quota
  pmids,          \* self.pmids: the identifier pool
  papers_data,    \* self.papers_data: the ResultSet
  \* ---- control state of main / fetch_pmids / fetch_paper_details
  pc,             \* position of the run: "fetch_pmids", "searched", "batch",
                  \* "articles", "after_batch", "done" ("idle": no run)
  retstart,       \* fetch_pmids: pagination offset
  i,              \* fetch_paper_details: offset of the current batch
  resp_len,       \* _fetch_batch_details: number of PubmedArticle nodes of the response
  art_idx,        \* _fetch_batch_details: articles of the response iterated so far
  \* ---- the transport's record of the requests made through session.get
  esearch_calls,  \* sequence of [retstart, retmax, ids, fault] of the esearch requests
  efetch_calls,   \* sequence of [ids, fault, stored] of the efetch requests
  \* ---- a single call of the classifier / of the extractor
  affiliation,    \* argument of _is_company_affiliation
  is_company,     \* its result
  article,        \* argument of _extract_paper_data
  paper_data,     \* its result ([some |-> FALSE] stands for None)
  call            \* "idle", "called", "returned", "faulted" or "stored"

vars == << max_results, pmids, papers_data, pc, retstart, i, resp_len, art_idx,
           esearch_calls, efetch_calls,
           affiliation, is_company, article, paper_data, call >>

-----------------------------------------------------------------------------
(* Text *)

UpperChars ==
  << "A","B","C","D","E","F","G","H","I","J","K","L","M",
     "N","O","P","Q","R","S","T","U","V","W","X","Y","Z" >>

LowerChars ==
  << "a","b","c","d","e","f","g","h","i","j","k","l","m",
     "n","o","p","q","r","s","t","u","v","w","x","y","z" >>

\* str.lower() on one (ASCII) character.
LowerChar(c) ==
  IF \E k \in DOMAIN UpperChars : UpperChars[k] = c
  THEN LowerChars[CHOOSE k \in DOMAIN UpperChars : UpperChars[k] = c]
  ELSE c

\* str.lower(): line 310.
Lower(s) == [k \in DOMAIN s |-> LowerChar(s[k])]

\* Python's `t in s` for strings: t occurs in s as a contiguous substring.
Contains(s, t) ==
  \E k \in 0..(Len(s) - Len(t)) :
     \A j \in 1..Len(t) : s[k + j] = t[j]

-----------------------------------------------------------------------------
(* The classifier's vocabularies *)

\* COMPANY_KEYWORDS (lines 24-27), each term spelled character by character.
COMPANY_KEYWORDS ==
  << <<"b","i","o","t","e","c","h">>,
     <<"b","i","o","t","e","c","h","n","o","l","o","g","y">>,
     <<"t","h","e","r","a","p","e","u","t","i","c","s">>,
     <<"s","c","i","e","n","c","e","s">>,
     <<"s","o","l","u","t","i","o","n","s">>,
     <<"t","e","c","h","n","o","l","o","g","i","e","s">>,
     <<"b","i","o","s","c","i","e","n","c","e","s">>,
     <<"b","i","o","p","h","a","r","m","a">>,
     <<"b","i","o","p","h","a","r","m","a","c","e","u","t","i","c","a","l","s">> >>

\* LEGAL_ENTITIES (lines 30-34), each term spelled character by character.
LEGAL_ENTITIES ==
  << <<"c","o","r","p">>,
     <<"c","o","r","p","o","r","a","t","i","o","n">>,
     <<"c","o","m","p","a","n","y">>,
     <<"i","n","c">>,
     <<"l","t","d">>,
     <<"l","l","c">>,
     <<"l","l","p">>,
     <<"g","m","b","h">>,
     <<"a","g">>,
     <<"s","a">>,
     <<"b","v">>,
     <<"n","v">>,
     <<"s","r","l">>,
     <<"s","p","a">>,
     <<"p","l","c">>,
     <<"p","t","y">>,
     <<"c","o",".">>,
     <<"c","o"," ">>,
     <<" ","c","o">>,
     <<"l","i","m","i","t","e","d">>,
     <<"e","n","t","e","r","p","r","i","s","e","s">>,
     <<"h","o","l","d","i","n","g","s">> >>

\* KNOWN_COMPANIES (lines 37-50), each term spelled character by character.
KNOWN_COMPANIES ==
  << <<"p","f","i","z","e","r">>,
     <<"m","o","d","e","r","n","a">>,
     <<"j","o","h","n","s","o","n">>,
     <<"m","e","r","c","k">>,
     <<"r","o","c","h","e">>,
     <<"n","o","v","a","r","t","i","s">>,
     <<"s","a","n","o","f","i">>,
     <<"a","s","t","r","a","z","e","n","e","c","a">>,
     <<"g","s","k">>,
     <<"g","l","a","x","o","s","m","i","t","h","k","l","i","n","e">>,
     <<"a","b","b","v","i","e">>,
     <<"b","i","o","g","e","n">>,
     <<"a","m","g","e","n">>,
     <<"g","i","l","e","a","d">>,
     <<"v","e","r","t","e","x">>,
     <<"i","l","l","u","m","i","n","a">>,
     <<"r","e","g","e","n","e","r","o","n">>,
     <<"c","e","l","g","e","n","e">>,
     <<"b","r","i","s","t","o","l">>,
     <<"b","o","e","h","r","i","n","g","e","r">>,
     <<"t","a","k","e","d","a">>,
     <<"b","a","y","e","r">>,
     <<"e","l","i"," ","l","i","l","l","y">>,
     <<"l","i","l","l","y">>,
     <<"a","b","b","o","t","t">>,
     <<"d","a","i","i","c","h","i">>,
     <<"s","a","n","k","y","o">>,
     <<"e","i","s","a","i">>,
     <<"a","s","t","e","l","l","a","s">>,
     <<"o","t","s","u","k","a">>,
     <<"s","h","i","o","n","o","g","i">>,
     <<"c","h","u","g","a","i">>,
     <<"s","u","m","i","t","o","m","o">>,
     <<"m","i","t","s","u","b","i","s","h","i">>,
     <<"t","a","n","a","b","e">>,
     <<"k","y","o","w","a">>,
     <<"k","i","r","i","n">>,
     <<"a","l","e","x","i","o","n">>,
     <<"i","n","c","y","t","e">>,
     <<"b","i","o","m","a","r","i","n">>,
     <<"s","a","r","e","p","t","a">>,
     <<"b","l","u","e","b","i","r","d">>,
     <<"s","p","a","r","k">>,
     <<"c","r","i","s","p","r">>,
     <<"e","d","i","t","a","s">>,
     <<"i","n","t","e","l","l","i","a">>,
     <<"s","a","n","g","a","m","o">>,
     <<"p","r","e","c","i","s","i","o","n">>,
     <<"e","x","a","c","t">>,
     <<"f","o","u","n","d","a","t","i","o","n">>,
     <<"g","u","a","r","d","a","n","t">>,
     <<"v","e","r","a","c","y","t","e">>,
     <<"1","0","x"," ","g","e","n","o","m","i","c","s">>,
     <<"t","w","i","s","t">>,
     <<"p","a","c","i","f","i","c">>,
     <<"s","e","a","g","e","n">>,
     <<"i","m","m","u","n","o","m","e","d","i","c","s">>,
     <<"m","a","c","r","o","g","e","n","i","c","s">>,
     <<"n","e","k","t","a","r">>,
     <<"h","a","l","o","z","y","m","e">>,
     <<"d","y","n","a","v","a","x">>,
     <<"v","a","x","c","y","t","e">>,
     <<"n","o","v","a","v","a","x">>,
     <<"c","u","r","e","V","a","c">>,
     <<"b","i","o","n","t","e","c","h">>,
     <<"a","l","n","y","l","a","m">>,
     <<"i","o","n","i","s">>,
     <<"w","a","v","e">>,
     <<"d","i","c","e","r","n","a">>,
     <<"a","r","r","o","w","h","e","a","d">>,
     <<"s","i","l","e","n","c","e">> >>

\* ACADEMIC_EXCLUSIONS (lines 53-58), each term spelled character by character.
ACADEMIC_EXCLUSIONS ==
  << <<"u","n","i","v","e","r","s","i","t","y">>,
     <<"c","o","l","l","e","g","e">>,
     <<"s","c","h","o","o","l">>,
     <<"i","n","s","t","i","t","u","t","e">>,
     <<"h","o","s","p","i","t","a","l">>,
     <<"m","e","d","i","c","a","l"," ","c","e","n","t","e","r">>,
     <<"h","e","a","l","t","h"," ","s","y","s","t","e","m">>,
     <<"r","e","s","e","a","r","c","h"," ","c","e","n","t","e","r">>,
     <<"c","l","i","n","i","c">>,
     <<"a","c","a","d","e","m","i","c">>,
     <<"f","a","c","u","l","t","y">>,
     <<"d","e","p","a","r","t","m","e","n","t">>,
     <<"d","i","v","i","s","i","o","n">>,
     <<"s","e","c","t","i","o","n">>,
     <<"l","a","b","o","r","a","t","o","r","y">>,
     <<"c","e","n","t","e","r"," ","f","o","r">>,
     <<"c","e","n","t","r","e"," ","f","o","r">>,
     <<"r","e","s","e","a","r","c","h"," ","i","n","s","t","i","t","u","t","e">> >>
-----------------------------------------------------------------------------
(* Affiliation classifier *)

\* The first rule of the cascade (lines 313-314): an academic term is present.
IsExcluded(aff_lower) ==
  \E e \in DOMAIN ACADEMIC_EXCLUSIONS : Contains(aff_lower, ACADEMIC_EXCLUSIONS[e])

\* The inclusion rules (lines 317-326), in the order of the code.
IsKnownCompany(aff_lower) ==
  \E c \in DOMAIN KNOWN_COMPANIES : Contains(aff_lower, KNOWN_COMPANIES[c])

IsLegalEntity(aff_lower) ==
  \E e \in DOMAIN LEGAL_ENTITIES : Contains(aff_lower, LEGAL_ENTITIES[e])

IsCompanyKeyword(aff_lower) ==
  \E k \in DOMAIN COMPANY_KEYWORDS : Contains(aff_lower, COMPANY_KEYWORDS[k])

\* A cascade that tests the known-company list before the exclusions.
Cascade_InclusionFirst(aff_lower) ==
  IF IsKnownCompany(aff_lower) THEN TRUE
  ELSE IF IsExcluded(aff_lower) THEN FALSE
  ELSE IF IsLegalEntity(aff_lower) THEN TRUE
  ELSE IF IsCompanyKeyword(aff_lower) THEN TRUE
  ELSE FALSE

\* The ordered rule cascade on the lower-cased text (lines 313-328).
Cascade(aff_lower) ==
  IF IsExcluded(aff_lower) THEN FALSE
  ELSE IF IsKnownCompany(aff_lower) THEN TRUE
  ELSE IF IsLegalEntity(aff_lower) THEN TRUE
  ELSE IF IsCompanyKeyword(aff_lower) THEN TRUE
  ELSE FALSE

\* _is_company_affiliation (lines 300-328).
_is_company_affiliation(aff) == Cascade(Lower(aff))

-----------------------------------------------------------------------------
(* Record extractor *)

\* findtext found no element.
None == [some |-> FALSE, text |-> << >>]

\* findtext found an element with text t.
Some(t) == [some |-> TRUE, text |-> t]

\* Python truthiness of an optional text: neither None nor ''.
Truthy(o) == o.some /\ o.text # << >>

Unknown == << "U","n","k","n","o","w","n" >>

NoTitle == << "N","o"," ","t","i","t","l","e" >>

SeqToSet(s) == { s[k] : k \in DOMAIN s }

Acme == << "A","c","m","e"," ","T","h","e","r","a","p","e","u","t","i","c","s"," ","I","n","c" >>

StateUniversity == << "S","t","a","t","e"," ","U","n","i","v","e","r","s","i","t","y" >>

PfizerInstitute ==
  << "P","f","i","z","e","r"," ","I","n","s","t","i","t","u","t","e" >>

\* The affiliation texts the articles of the model are made of, and the
\* classifier's verdict on each, computed once: _is_company_affiliation is
\* pure, so that looking a verdict up is calling it again.
ArticleAffiliations == << Acme, StateUniversity, PfizerInstitute >>

ArticleVerdicts ==
  << _is_company_affiliation(Acme),
     _is_company_affiliation(StateUniversity),
     _is_company_affiliation(PfizerInstitute) >>

\* self._is_company_affiliation(aff), as called at lines 346 and 369.
IsCompany(aff) ==
  IF \E k \in DOMAIN ArticleAffiliations : ArticleAffiliations[k] = aff
  THEN ArticleVerdicts[CHOOSE k \in DOMAIN ArticleAffiliations : ArticleAffiliations[k] = aff]
  ELSE _is_company_affiliation(aff)

\* Line 285: f"{fore} {last}" if fore and last else last or "Unknown".
AuthorName(author) ==
  IF Truthy(author.ForeName) /\ Truthy(author.LastName)
  THEN author.ForeName.text \o << " " >> \o author.LastName.text
  ELSE IF Truthy(author.LastName) THEN author.LastName.text
  ELSE Unknown

\* Lines 288-292: the non-empty Affiliation texts of the author's
\* AffiliationInfo entries, in document order.
AuthorAffiliations(author) ==
  LET kept == SelectSeq(author.AffiliationInfo, Truthy)
  IN  [k \in DOMAIN kept |-> kept[k].text]

\* _extract_authors_and_affiliations (lines 266-297).
_extract_authors_and_affiliations(art) ==
  [k \in DOMAIN art.authors |->
     [name         |-> AuthorName(art.authors[k]),
      affiliations |-> AuthorAffiliations(art.authors[k])]]

\* Line 346: any(self._is_company_affiliation(aff) for aff in author['affiliations']).
HasCompanyAffiliation(author) ==
  \E a \in DOMAIN author.affiliations :
     IsCompany(author.affiliations[a])

\* _filter_company_authors (lines 331-350).  list(set(...)) deduplicates and
\* leaves the order to the set: the result is modelled as the set.
_filter_company_authors(authors_info) ==
  { authors_info[k].name :
      k \in { n \in DOMAIN authors_info : HasCompanyAffiliation(authors_info[n]) } }

\* Lines 366-370 collecting every affiliation of a company author, company or not.
_extract_company_affiliations_OfAuthors(authors_info) ==
  UNION { SeqToSet(authors_info[k].affiliations) :
            k \in { n \in DOMAIN authors_info : HasCompanyAffiliation(authors_info[n]) } }

\* _extract_company_affiliations (lines 353-373), as a set for the same reason.
_extract_company_affiliations(authors_info) ==
  UNION { { aff \in SeqToSet(authors_info[k].affiliations) :
              IsCompany(aff) } : k \in DOMAIN authors_info }

\* The dictionary of lines 228-235.  The two joined fields are kept as the
\* sets that '; '.join renders; the publication date and the contact email
\* are pure functions of the article that no operation of the run reads.
PaperRecord(pmid, title, company_authors, company_affiliations) ==
  [PubmedID             |-> pmid,
   Title                |-> title,
   NonAcademicAuthors   |-> company_authors,
   CompanyAffiliations  |-> company_affiliations]

NoPaper == [some |-> FALSE, rec |-> PaperRecord(<< >>, << >>, {}, {})]

\* Lines 218-219 dropped: a record is built for every article.
_extract_paper_data_NoGate(art) ==
  LET authors_info == _extract_authors_and_affiliations(art)
  IN  [some |-> TRUE,
       rec  |-> PaperRecord(IF Truthy(art.PMID) THEN art.PMID.text ELSE Unknown,
                            IF Truthy(art.ArticleTitle) THEN art.ArticleTitle.text ELSE NoTitle,
                            _filter_company_authors(authors_info),
                            _extract_company_affiliations(authors_info))]

\* _extract_paper_data (lines 191-235), the path that raises nothing.
_extract_paper_data(art) ==
  LET authors_info    == _extract_authors_and_affiliations(art)
      company_authors == _filter_company_authors(authors_info)
  IN  IF company_authors = {}
      THEN NoPaper
      ELSE [some |-> TRUE,
            rec  |-> PaperRecord(IF Truthy(art.PMID) THEN art.PMID.text ELSE Unknown,
                                 IF Truthy(art.ArticleTitle) THEN art.ArticleTitle.text ELSE NoTitle,
                                 _filter_company_authors(authors_info),
                                 _extract_company_affiliations(authors_info))]

-----------------------------------------------------------------------------
(* Bounds of the model *)

\* The quota ranges over 1..MaxQuota; 21 is the least quota whose pool
\* bound (105) exceeds one page, so that a second page and a second batch occur.
MaxQuota == 22

\* Alone, fetch_pmids is run with the quotas 1..MaxSearchQuota; 41 is the least
\* quota whose pool bound (205) exceeds two pages, so that a third page occurs.
MaxSearchQuota == 41

\* A short page holds 1..MaxShortPage or retmax - 1 identifiers.
MaxShortPage == 1

\* A detail response holds 0..MaxArticles PubmedArticle nodes.
MaxArticles == 22

-----------------------------------------------------------------------------
(* Identifier search: fetch_pmids *)

\* retmax = 100 (line 83).
retmax == 100

\* The multiplier of the loop condition (line 87).
overfetch_factor == 5

\* batch_size = 100 (line 134).
batch_size == 100

Min(a, b) == IF a <= b THEN a ELSE b

\* The esearch endpoint: the page of n identifiers at offset start of the
\* result list 1, 2, 3, ...  (lines 98-103: ids of the parsed response).
PageIds(start, n) == [k \in 1..n |-> start + k]

\* The numbers of identifiers of a non-empty page response: short pages and
\* the full page.
PageLens == (1..MaxShortPage) \cup {retmax - 1, retmax}

\* The loop condition of line 87.
NeedMore == Len(pmids) < max_results * overfetch_factor

\* An offset that is never advanced.
NextRetstart_Stuck(r) == r

\* Line 111: retstart += retmax.
NextRetstart(r) == r + retmax

\* A short page that does not end the pagination.
AfterPage_NoShortBreak(ids) == "fetch_pmids"

\* Lines 114-115: a page shorter than retmax ends the pagination.
AfterPage(ids) == IF Len(ids) < retmax THEN "searched" ELSE "fetch_pmids"

\* A fault that is retried: the loop goes round again.
AfterSearchFault_Retry == "fetch_pmids"

\* Lines 117-119: a fault breaks out of the loop.
AfterSearchFault == "searched"

\* What the transport sees of one esearch request (lines 88-103): the offset
\* and page size asked for, the identifiers answered, whether it raised.
EsearchCall(ids, fault) ==
  [retstart |-> retstart, retmax |-> retmax, ids |-> ids, fault |-> fault]

\* One round of the loop (lines 87-115) whose response holds n >= 1 identifiers.
SearchPage(n) ==
  /\ pc = "fetch_pmids"
  /\ NeedMore
  /\ LET ids == PageIds(retstart, n)
     IN  /\ esearch_calls' = Append(esearch_calls, EsearchCall(ids, FALSE))
         /\ pmids' = pmids \o ids
         /\ retstart' = NextRetstart(retstart)
         /\ pc' = AfterPage(ids)
  /\ UNCHANGED << max_results, papers_data, i, resp_len, art_idx,
                  efetch_calls, affiliation, is_company, article, paper_data, call >>

\* One round whose response holds no identifier (lines 106-107).
SearchEmptyPage ==
  /\ pc = "fetch_pmids"
  /\ NeedMore
  /\ esearch_calls' = Append(esearch_calls, EsearchCall(<< >>, FALSE))
  /\ pc' = "searched"
  /\ UNCHANGED << max_results, pmids, papers_data, retstart, i, resp_len, art_idx,
                  efetch_calls, affiliation, is_company, article,
                  paper_data, call >>

\* One round whose request, status check or parse raises (lines 117-119).
SearchFault ==
  /\ pc = "fetch_pmids"
  /\ NeedMore
  /\ esearch_calls' = Append(esearch_calls, EsearchCall(<< >>, TRUE))
  /\ pc' = AfterSearchFault
  /\ UNCHANGED << max_results, pmids, papers_data, retstart, i, resp_len, art_idx,
                  efetch_calls, affiliation, is_company, article,
                  paper_data, call >>

\* The loop condition fails (line 87); fetch_pmids returns (line 122).
SearchEnough ==
  /\ pc = "fetch_pmids"
  /\ ~NeedMore
  /\ pc' = "searched"
  /\ UNCHANGED << max_results, pmids, papers_data, retstart, i, resp_len, art_idx,
                  esearch_calls, efetch_calls, affiliation, is_company,
                  article, paper_data, call >>

-----------------------------------------------------------------------------
(* Detail retrieval: fetch_paper_details and _fetch_batch_details *)

NameA == << "A" >>

NameB == << "B" >>

Author(fore, last, affs) ==
  [ForeName |-> fore, LastName |-> last, AffiliationInfo |-> affs]

Article(pmid, title, authors) ==
  [PMID |-> pmid, ArticleTitle |-> title, authors |-> authors]

\* The PubmedArticle nodes a detail response is made of: one with a company
\* author A and an academic author B, one with the academic author alone.
ResponseArticles ==
  << Article(Some(<< "1" >>), Some(<< "T" >>),
             << Author(None, Some(NameA), << Some(Acme) >>),
                Author(None, Some(NameB), << Some(StateUniversity) >>) >>),
     Article(Some(<< "2" >>), Some(<< "T" >>),
             << Author(None, Some(NameB), << Some(StateUniversity) >>) >>) >>

\* Line 177 on each of them: the extraction is pure, its results are computed once.
ResponsePapers ==
  << _extract_paper_data(ResponseArticles[1]),
     _extract_paper_data(ResponseArticles[2]) >>

\* A slice that runs one identifier into the next batch.
BatchSlice_Overlap(pool, start) ==
  SubSeq(pool, start + 1, Min(start + batch_size + 1, Len(pool)))

\* Line 138: self.pmids[i:i + batch_size].
BatchSlice(pool, start) == SubSeq(pool, start + 1, Min(start + batch_size, Len(pool)))

\* Lines 146 and 184: len(self.papers_data) >= self.max_results.
QuotaReached(data) == Len(data) >= max_results

\* Lines 180-181: a record is appended, None is not.
Stored(data, pd) == IF pd.some THEN Append(data, pd.rec) ELSE data

\* The article loop without the test of lines 184-185.
AfterStore_NoBreak(data, pd) == "articles"

\* Lines 180-185: after an appended record the quota is tested.
AfterStore(data, pd) ==
  IF pd.some /\ QuotaReached(Stored(data, pd)) THEN "after_batch" ELSE "articles"

\* A batch fault that propagates and ends the loop over the batches.
AfterBatchFault_Abort == "done"

\* Lines 187-188: a batch fault is logged, _fetch_batch_details returns.
AfterBatchFault == "after_batch"

\* The loop over the batches without the test of lines 146-147.
AfterBatchPc_NoStop(data, start) ==
  IF start + batch_size < Len(pmids) THEN "batch" ELSE "done"

\* Lines 137, 146-147: stop when the quota is reached, else the next batch if any.
AfterBatchPc(data, start) ==
  IF QuotaReached(data) THEN "done"
  ELSE IF start + batch_size < Len(pmids) THEN "batch" ELSE "done"

\* What the transport sees of one efetch request (lines 158-169): the
\* identifiers sent and whether the request, its status check or the parse of
\* its response raised; stored is len(self.papers_data) when it is made.
EfetchCall(ids, fault) ==
  [ids |-> ids, fault |-> fault, stored |-> Len(papers_data)]

\* fetch_paper_details entering the batch loop whatever the pool.
StartDetails_NoEmptyCheck ==
  /\ pc = "searched"
  /\ pc' = "batch"
  /\ i' = 0
  /\ UNCHANGED << max_results, pmids, papers_data, retstart, resp_len, art_idx,
                  esearch_calls, efetch_calls, affiliation, is_company,
                  article, paper_data, call >>

\* main, line 482, and lines 130-137: nothing to fetch, or the first batch.
StartDetails ==
  /\ pc = "searched"
  /\ pc' = IF pmids = << >> THEN "done" ELSE "batch"
  /\ i' = 0
  /\ UNCHANGED << max_results, pmids, papers_data, retstart, resp_len, art_idx,
                  esearch_calls, efetch_calls, affiliation, is_company,
                  article, paper_data, call >>

\* Lines 138-172: the request of one batch, answered by n articles.
FetchBatch(n) ==
  /\ pc = "batch"
  /\ efetch_calls' = Append(efetch_calls, EfetchCall(BatchSlice(pmids, i), FALSE))
  /\ resp_len' = n
  /\ art_idx' = 0
  /\ pc' = "articles"
  /\ UNCHANGED << max_results, pmids, papers_data, retstart, i, esearch_calls,
                  affiliation, is_company, article, paper_data, call >>

\* Lines 138-172 and 187-188: the request, its status check or the parse raises.
FetchBatchFault ==
  /\ pc = "batch"
  /\ efetch_calls' = Append(efetch_calls, EfetchCall(BatchSlice(pmids, i), TRUE))
  /\ resp_len' = 0
  /\ art_idx' = 0
  /\ pc' = AfterBatchFault
  /\ UNCHANGED << max_results, pmids, papers_data, retstart, i, esearch_calls,
                  affiliation, is_company, article, paper_data, call >>

\* Lines 175-185: one article of the response, ResponseArticles[a].
NextArticle(a) ==
  /\ pc = "articles"
  /\ art_idx < resp_len
  /\ LET pd == ResponsePapers[a]
     IN  /\ papers_data' = Stored(papers_data, pd)
         /\ pc' = AfterStore(papers_data, pd)
  /\ art_idx' = art_idx + 1
  /\ UNCHANGED << max_results, pmids, retstart, i, resp_len,
                  esearch_calls, efetch_calls, affiliation, is_company, article,
                  paper_data, call >>

\* An extraction fault that is not caught and ends the run.
ArticleFault_Uncaught ==
  /\ pc = "articles"
  /\ art_idx < resp_len
  /\ pc' = "crashed"
  /\ UNCHANGED << max_results, pmids, papers_data, retstart, i, resp_len, art_idx,
                  esearch_calls, efetch_calls, affiliation, is_company, article,
                  paper_data, call >>

\* Lines 175-180 and 237-240: the extraction of one article raises, and
\* _extract_paper_data returns None.
ArticleFault ==
  /\ pc = "articles"
  /\ art_idx < resp_len
  /\ papers_data' = Stored(papers_data, NoPaper)
  /\ pc' = AfterStore(papers_data, NoPaper)
  /\ art_idx' = art_idx + 1
  /\ UNCHANGED << max_results, pmids, retstart, i, resp_len,
                  esearch_calls, efetch_calls, affiliation, is_company, article,
                  paper_data, call >>

\* Line 175: the response has no further article; _fetch_batch_details returns.
EndArticles ==
  /\ pc = "articles"
  /\ art_idx = resp_len
  /\ pc' = "after_batch"
  /\ UNCHANGED << max_results, pmids, papers_data, retstart, i, resp_len, art_idx,
                  esearch_calls, efetch_calls, affiliation, is_company,
                  article, paper_data, call >>

\* Lines 143-147 and 137: the pause, the quota test and the step to the next batch.
AfterBatch ==
  /\ pc = "after_batch"
  /\ pc' = AfterBatchPc(papers_data, i)
  /\ i' = IF AfterBatchPc(papers_data, i) = "batch" THEN i + batch_size ELSE i
  /\ UNCHANGED << max_results, pmids, papers_data, retstart, resp_len, art_idx,
                  esearch_calls, efetch_calls, affiliation, is_company, article,
                  paper_data, call >>

-----------------------------------------------------------------------------
(* The run: main, lines 480-482 *)

NoArticle == Article(None, None, << >>)

\* No call of the classifier or of the extractor is under way.
CallsIdle ==
  /\ affiliation = << >>
  /\ is_company = FALSE
  /\ article = NoArticle
  /\ paper_data = NoPaper
  /\ call = "idle"

\* PubMedFetcher(query, API_KEY, max_results) (lines 60-74), before
\* fetch_pmids is called.
Constructed ==
  /\ pmids = << >>
  /\ papers_data = << >>
  /\ pc = "fetch_pmids"
  /\ retstart = 0
  /\ i = 0
  /\ resp_len = 0
  /\ art_idx = 0
  /\ esearch_calls = << >>
  /\ efetch_calls = << >>
  /\ CallsIdle

\* main, lines 478-480: the quota is clamped to >= 1.
Init ==
  /\ max_results \in 1..MaxQuota
  /\ Constructed

Next ==
  \/ \E n \in PageLens : SearchPage(n)
  \/ SearchEmptyPage
  \/ SearchFault
  \/ SearchEnough
  \/ StartDetails
  \/ \E n \in 0..MaxArticles : FetchBatch(n)
  \/ FetchBatchFault
  \/ \E a \in DOMAIN ResponseArticles : NextArticle(a)
  \/ ArticleFault
  \/ EndArticles
  \/ AfterBatch

Spec == Init /\ [][Next]_vars

\* The run is a single thread that takes its next step whenever it has one.
FairSpec == Spec /\ WF_vars(Next)

\* fetch_pmids alone (main, line 481), a thread that takes its next step
\* whenever it has one.
SearchNext ==
  \/ \E n \in PageLens : SearchPage(n)
  \/ SearchEmptyPage
  \/ SearchFault
  \/ SearchEnough

SearchInit ==
  /\ max_results \in 1..MaxSearchQuota
  /\ Constructed

SearchSpec == SearchInit /\ [][SearchNext]_vars /\ WF_vars(SearchNext)

-----------------------------------------------------------------------------
(* One call of _is_company_affiliation on a bounded set of affiliations *)

\* An affiliation is made of at most MaxWords words.
MaxWords == 2

Capitalize(w) ==
  [k \in DOMAIN w |->
     IF k = 1 /\ \E u \in DOMAIN LowerChars : LowerChars[u] = w[1]
     THEN UpperChars[CHOOSE u \in DOMAIN LowerChars : LowerChars[u] = w[1]]
     ELSE w[k]]

\* Every term of the four vocabularies, as written and capitalized.
TermWords ==
  LET terms == SeqToSet(ACADEMIC_EXCLUSIONS) \cup SeqToSet(KNOWN_COMPANIES)
                 \cup SeqToSet(LEGAL_ENTITIES) \cup SeqToSet(COMPANY_KEYWORDS)
  IN  terms \cup { Capitalize(t) : t \in terms }

\* The words put around a term: neutral ones and one of each vocabulary.
ContextWords ==
  { << "A","c","m","e" >>,
    << "o","f" >>,
    << "H","O","S","P","I","T","A","L" >>,
    << "P","f","i","z","e","r" >>,
    << "G","m","b","H" >>,
    << "B","i","o","t","e","c","h" >> }

RECURSIVE AffiliationsOf(_)
AffiliationsOf(n) ==
  IF n = 0 THEN { << >> }
  ELSE IF n = 1 THEN TermWords \cup ContextWords
  ELSE LET shorter == AffiliationsOf(n - 1)
       IN  shorter
             \cup { s \o << " " >> \o w : s \in shorter \ { << >> }, w \in ContextWords }
             \cup { w \o << " " >> \o s : s \in shorter \ { << >> }, w \in ContextWords }

AffiliationInputs == AffiliationsOf(MaxWords) \cup { << >>, Acme, StateUniversity }

PipelineIdle ==
  /\ max_results = 1
  /\ pmids = << >>
  /\ papers_data = << >>
  /\ pc = "idle"
  /\ retstart = 0
  /\ i = 0
  /\ resp_len = 0
  /\ art_idx = 0
  /\ esearch_calls = << >>
  /\ efetch_calls = << >>

ClassifyInit ==
  /\ PipelineIdle
  /\ affiliation \in AffiliationInputs
  /\ is_company = FALSE
  /\ article = NoArticle
  /\ paper_data = NoPaper
  /\ call = "called"

\* _is_company_affiliation(affiliation) returns (lines 300-328).
Classify ==
  /\ pc = "idle"
  /\ call = "called"
  /\ affiliation \in AffiliationInputs
  /\ is_company' = _is_company_affiliation(affiliation)
  /\ call' = "returned"
  /\ UNCHANGED << max_results, pmids, papers_data, pc, retstart, i, resp_len, art_idx,
                  esearch_calls, efetch_calls, affiliation, article,
                  paper_data >>

ClassifyNext == Classify

ClassifySpec == ClassifyInit /\ [][ClassifyNext]_vars

-----------------------------------------------------------------------------
(* One round of the article loop on a bounded set of articles *)

\* An article has at most MaxAuthors authors.
MaxAuthors == 2

Ann == << "A","n","n" >>

\* The AffiliationInfo entries of an author: none, entries without text,
\* a company's, academic ones and mixtures in both orders.
AffiliationLists ==
  { << >>,
    << Some(Acme) >>,
    << Some(StateUniversity) >>,
    << Some(Acme), Some(StateUniversity) >>,
    << Some(StateUniversity), Some(Acme) >>,
    << None, Some(<< >>), Some(PfizerInstitute) >> }

RECURSIVE SeqsUpTo(_, _)
SeqsUpTo(S, n) ==
  IF n = 0 THEN { << >> }
  ELSE LET shorter == SeqsUpTo(S, n - 1)
       IN  shorter \cup { Append(s, x) : s \in { t \in shorter : Len(t) = n - 1 }, x \in S }

\* The ForeName and LastName of an author: each present or absent, and a
\* second last name.
NameParts ==
  { << None, None >>, << Some(Ann), None >>, << None, Some(NameA) >>,
    << Some(Ann), Some(NameA) >>, << None, Some(NameB) >> }

AuthorInputs ==
  { Author(parts[1], parts[2], affs) : parts \in NameParts, affs \in AffiliationLists }

ArticleInputs ==
  { Article(head[1], head[2], authors) :
      head \in { << None, None >>, << Some(<< "1" >>), Some(<< "T" >>) >> },
      authors \in SeqsUpTo(AuthorInputs, MaxAuthors) }

ExtractInit ==
  /\ PipelineIdle
  /\ affiliation = << >>
  /\ is_company = FALSE
  /\ article \in ArticleInputs
  /\ paper_data = NoPaper
  /\ call = "called"

\* paper_data = self._extract_paper_data(article) (line 177).
Extract ==
  /\ pc = "idle"
  /\ call = "called"
  /\ article \in ArticleInputs
  /\ paper_data' = _extract_paper_data(article)
  /\ call' = "returned"
  /\ UNCHANGED << max_results, pmids, papers_data, pc, retstart, i, resp_len, art_idx,
                  esearch_calls, efetch_calls, affiliation, is_company,
                  article >>

\* The extraction raises and None is returned (lines 237-240).
ExtractFault ==
  /\ pc = "idle"
  /\ call = "called"
  /\ article \in ArticleInputs
  /\ paper_data' = NoPaper
  /\ call' = "faulted"
  /\ UNCHANGED << max_results, pmids, papers_data, pc, retstart, i, resp_len, art_idx,
                  esearch_calls, efetch_calls, affiliation, is_company,
                  article >>

\* Lines 180-181: the record, if any, is appended to papers_data.
Store ==
  /\ pc = "idle"
  /\ call \in { "returned", "faulted" }
  /\ article \in ArticleInputs
  /\ papers_data' = Stored(papers_data, paper_data)
  /\ call' = "stored"
  /\ UNCHANGED << max_results, pmids, pc, retstart, i, resp_len, art_idx,
                  esearch_calls, efetch_calls, affiliation, is_company,
                  article, paper_data >>

ExtractNext == Extract \/ ExtractFault \/ Store

ExtractSpec == ExtractInit /\ [][ExtractNext]_vars

-----------------------------------------------------------------------------
(* Properties of the run *)

Last(s) == s[Len(s)]

\* The number of batches of a pool: ceil(|pool| / batch_size).
NumBatches(pool) == (Len(pool) + batch_size - 1) \div batch_size

\* An esearch, resp. efetch, request is made in the step.
EsearchRequested == Len(esearch_calls') = Len(esearch_calls) + 1

EfetchRequested == Len(efetch_calls') = Len(efetch_calls) + 1

\* C1: once fetch_pmids has returned, the pool self.pmids that is handed to
\* the detail retrieval holds at most quota x 5 identifiers.
C1_PoolWithinOverfetchBound ==
  pc \in { "searched", "batch", "articles", "after_batch", "done" }
    => Len(pmids) <= max_results * 5

\* C2: in every state of a run on a fresh fetcher the ResultSet holds at most
\* max_results records, whatever the pool, the articles of the batch
\* responses and the batch faults.
C2_ResultSetWithinQuota == Len(papers_data) <= max_results

\* A batch whose response held more articles than were iterated when the
\* quota was reached, after batches that had left the ResultSet empty.
C2_Witness ==
  /\ pc = "after_batch"
  /\ Len(papers_data) = max_results
  /\ max_results > 1
  /\ Last(efetch_calls).stored = 0
  /\ art_idx < resp_len

\* C3: a detail request that raises contributes no record and leaves the
\* records of the earlier batches as they are; the loop then goes on to the
\* next batch, whose request is made, and when the quota is never reached
\* the run ends with one request made for every batch of the pool.
C3_BatchFaultIsolated ==
  [][ /\ (EfetchRequested /\ Last(efetch_calls').fault)
           => (papers_data' = papers_data /\ pc' = "after_batch")
      /\ (pc = "after_batch" /\ Last(efetch_calls).fault)
           => /\ papers_data' = papers_data
              /\ Len(papers_data) < max_results
              /\ i + batch_size < Len(pmids) => (pc' = "batch" /\ i' = i + batch_size)
      /\ pc = "batch"
           => (EfetchRequested /\ Last(efetch_calls').ids = BatchSlice(pmids, i))
      /\ (pc' = "done" /\ Len(papers_data') < max_results /\ pmids' # << >>)
           => Len(efetch_calls') = NumBatches(pmids')
    ]_vars

\* The first batch raised, the second was requested and brought records.
C3_Witness ==
  /\ Len(efetch_calls) = 2
  /\ efetch_calls[1].fault
  /\ ~efetch_calls[2].fault
  /\ Len(papers_data) > 0
  /\ pc = "done"

\* C10: once the ResultSet holds max_results records nothing is extracted or
\* appended any more and no detail request is made any more: the record that
\* reaches the quota ends the article loop, and the test after the batch
\* ends the loop over the batches.
C10_HardCutoff ==
  [][ /\ Len(papers_data) >= max_results
           => /\ papers_data' = papers_data
              /\ art_idx' = art_idx
              /\ efetch_calls' = efetch_calls
              /\ pc' = "done"
      /\ (Len(papers_data') > Len(papers_data) /\ Len(papers_data') >= max_results)
           => pc' = "after_batch"
    ]_vars

\* The quota was reached inside the first of two batches, with articles of
\* its response left over: the run is over and the second batch was not requested.
C10_Witness ==
  /\ pc = "done"
  /\ Len(papers_data) = max_results
  /\ art_idx < resp_len
  /\ Len(efetch_calls) = 1
  /\ NumBatches(pmids) = 2

\* The identifiers of the pages the transport answered, in request order.
RECURSIVE PagesConcat(_)
PagesConcat(calls) ==
  IF calls = << >> THEN << >>
  ELSE PagesConcat(SubSeq(calls, 1, Len(calls) - 1)) \o Last(calls).ids

\* C6: fetch_pmids returns, whatever the transport answers to each request:
\* it makes at most ceil(quota x 5 / page size) requests, and a page shorter
\* than the page size is the last one, so that a transport whose pages are
\* all short is asked once.
C6_SearchTerminates ==
  /\ <>(pc # "fetch_pmids")
  /\ [](Len(esearch_calls) <= (max_results * 5 + retmax - 1) \div retmax)
  /\ [][ (EsearchRequested /\ Len(Last(esearch_calls').ids) < retmax)
            => pc' = "searched" ]_vars

\* fetch_pmids has returned after a single request, answered by a short page.
C6_Witness ==
  /\ pc = "searched"
  /\ Len(esearch_calls) = 1
  /\ Len(esearch_calls[1].ids) \in 1..(retmax - 1)
  /\ Len(pmids) < max_results * 5

\* C7: the pool is the concatenation of the pages received, in request
\* order; the k-th request asks for retmax identifiers at offset
\* (k - 1) x retmax; every page but the last one is full; and a full page
\* followed by a page of one identifier gives the pool of these retmax + 1
\* identifiers, in order, after exactly two requests.
C7_PoolIsPagesInRequestOrder ==
  /\ pmids = PagesConcat(esearch_calls)
  /\ \A k \in DOMAIN esearch_calls :
        /\ esearch_calls[k].retstart = (k - 1) * retmax
        /\ esearch_calls[k].retmax = retmax
        /\ k < Len(esearch_calls) => Len(esearch_calls[k].ids) = retmax
  /\ (esearch_calls # << >> /\ Len(Last(esearch_calls).ids) < retmax)
        => pc # "fetch_pmids"
  /\ ( /\ Len(esearch_calls) >= 2
       /\ esearch_calls[1].ids = [k \in 1..retmax |-> k]
       /\ esearch_calls[2].ids = << retmax + 1 >> )
        => /\ pmids = [k \in 1..(retmax + 1) |-> k]
           /\ Len(esearch_calls) = 2

\* A full page and then a page of one identifier were received.
C7_Witness ==
  /\ pc = "searched"
  /\ Len(esearch_calls) = 2
  /\ Len(esearch_calls[2].ids) = 1
  /\ Len(pmids) = retmax + 1

\* C9: a search request that raises is the last one, fetch_pmids returns
\* with the pool made of the pages received before it, and that pool, when
\* it is not empty, is what the detail requests are cut from.
C9_SearchFaultKeepsPartialPool ==
  [][ /\ (EsearchRequested /\ Last(esearch_calls').fault)
           => (pmids' = pmids /\ pc' = "searched")
      /\ (esearch_calls # << >> /\ Last(esearch_calls).fault)
           => /\ esearch_calls' = esearch_calls
              /\ pmids' = pmids
              /\ pmids = PagesConcat(SubSeq(esearch_calls, 1, Len(esearch_calls) - 1))
              /\ (pc = "searched" /\ pmids # << >>) => (pc' = "batch" /\ i' = 0)
              /\ EfetchRequested => Last(efetch_calls').ids = BatchSlice(pmids, i)
    ]_vars

\* The second search request raised and the page received before it was
\* sent in the first detail request.
C9_Witness ==
  /\ Len(esearch_calls) = 2
  /\ esearch_calls[2].fault
  /\ Len(pmids) = retmax
  /\ efetch_calls # << >>
  /\ efetch_calls[1].ids = pmids

-----------------------------------------------------------------------------
(* Properties of the extractor and of the classifier *)

\* The author entry has an Affiliation text that the classifier accepts.
IsCompanyAuthor(author) ==
  \E e \in DOMAIN author.AffiliationInfo :
     /\ author.AffiliationInfo[e].some
     /\ author.AffiliationInfo[e].text # << >>
     /\ IsCompany(author.AffiliationInfo[e].text)

\* The Affiliation texts of the article, over all its authors, that the
\* classifier accepts.
CompanyTextsOf(art) ==
  { t \in UNION { { author.AffiliationInfo[e].text : e \in DOMAIN author.AffiliationInfo } :
                    author \in SeqToSet(art.authors) } :
      t # << >> /\ IsCompany(t) }

\* C4: every record appended to papers_data names at least one company
\* author, each name in it is the name of an author of the article who has
\* an affiliation the classifier accepts, and an article without such an
\* author leaves papers_data as it was.
C4_RecordsHaveCompanyAuthors ==
  /\ \A k \in DOMAIN papers_data :
        /\ papers_data[k].NonAcademicAuthors # {}
        /\ \A name \in papers_data[k].NonAcademicAuthors :
              \E a \in DOMAIN article.authors :
                 /\ AuthorName(article.authors[a]) = name
                 /\ IsCompanyAuthor(article.authors[a])
  /\ (call = "stored" /\ ~ \E a \in DOMAIN article.authors : IsCompanyAuthor(article.authors[a]))
        => papers_data = << >>

\* The record of an article with a company author and an academic one was appended.
C4_Witness ==
  /\ call = "stored"
  /\ Len(papers_data) = 1
  /\ \E a \in DOMAIN article.authors : ~IsCompanyAuthor(article.authors[a])
  /\ \E a \in DOMAIN article.authors : IsCompanyAuthor(article.authors[a])

\* C5: an affiliation whose lower-cased text contains an academic-exclusion
\* term is classified false, whatever else it contains.
C5_ExclusionPrecedence ==
  ( /\ call = "returned"
    /\ \E e \in DOMAIN ACADEMIC_EXCLUSIONS :
          Contains(Lower(affiliation), ACADEMIC_EXCLUSIONS[e]) )
    => is_company = FALSE

\* An affiliation with an academic term, a known company, a legal-entity
\* suffix and an industry keyword has been classified.
C5_Witness ==
  /\ call = "returned"
  /\ IsExcluded(Lower(affiliation))
  /\ IsKnownCompany(Lower(affiliation))
  /\ IsLegalEntity(Lower(affiliation))
  /\ is_company = FALSE

\* C8: the company authors of a record are exactly the names of the authors
\* with an affiliation the classifier accepts, its company affiliations
\* exactly the accepted affiliation texts of the article; author A of "Acme
\* Therapeutics Inc" and author B of "State University" give {A} and
\* {"Acme Therapeutics Inc"}.
C8_CompanySetsExact ==
  /\ (call = "returned" /\ paper_data.some)
        => /\ paper_data.rec.NonAcademicAuthors =
                { AuthorName(author) :
                    author \in { x \in SeqToSet(article.authors) : IsCompanyAuthor(x) } }
           /\ paper_data.rec.CompanyAffiliations = CompanyTextsOf(article)
  /\ (call = "returned" /\ article = ResponseArticles[1])
        => /\ paper_data.some
           /\ paper_data.rec.NonAcademicAuthors = { NameA }
           /\ paper_data.rec.CompanyAffiliations = { Acme }

\* The article of author A ("Acme Therapeutics Inc") and author B ("State
\* University") has been extracted.
C8_Witness ==
  /\ call = "returned"
  /\ article = ResponseArticles[1]
  /\ paper_data.some

-----------------------------------------------------------------------------
(* Further properties of the run *)

\* C11: when fetch_pmids returns an empty pool (an empty first page, or a
\* first request that raises), no efetch request is ever made and the run
\* ends with an empty ResultSet.
C11_EmptyPoolShortCircuits ==
  [][ (pc' # "fetch_pmids" /\ pmids' = << >>)
         => /\ efetch_calls' = << >>
            /\ papers_data' = << >>
            /\ pc' \in { "searched", "done" }
            /\ pc = "searched" => pc' = "done" ]_vars

\* The first search request raised and the run is over.
C11_Witness ==
  /\ pc = "done"
  /\ pmids = << >>
  /\ Len(esearch_calls) = 1
  /\ esearch_calls[1].fault
  /\ efetch_calls = << >>

\* The record of a response article that has a company author.
RecordOf(art) ==
  PaperRecord(art.PMID.text, art.ArticleTitle.text,
              { AuthorName(author) :
                  author \in { x \in SeqToSet(art.authors) : IsCompanyAuthor(x) } },
              CompanyTextsOf(art))

HasCompanyAuthor(art) == \E author \in SeqToSet(art.authors) : IsCompanyAuthor(author)

\* C12: whatever raises, at a search page, at a detail batch or at an
\* article, the run reaches its end and never leaves its course: a fault
\* changes nothing in the ResultSet and is followed by the next step of the
\* run, an article processed without fault adds its record exactly when it
\* has a company author, and nothing else changes the ResultSet.
C12_BestEffortNeverCrash ==
  /\ <>(pc = "done")
  /\ [](pc \in { "fetch_pmids", "searched", "batch", "articles", "after_batch", "done" })
  /\ [][ /\ SearchFault => (papers_data' = papers_data /\ pc' = "searched")
         /\ FetchBatchFault => (papers_data' = papers_data /\ pc' = "after_batch")
         /\ ArticleFault => (papers_data' = papers_data /\ pc' = "articles")
         /\ \A a \in DOMAIN ResponseArticles :
               NextArticle(a) =>
                  papers_data' = IF HasCompanyAuthor(ResponseArticles[a])
                                 THEN Append(papers_data, RecordOf(ResponseArticles[a]))
                                 ELSE papers_data
         /\ pc # "articles" => papers_data' = papers_data
         /\ pc' = "done" =>
               \A k \in DOMAIN papers_data' :
                  \E a \in DOMAIN ResponseArticles :
                     /\ HasCompanyAuthor(ResponseArticles[a])
                     /\ papers_data'[k] = RecordOf(ResponseArticles[a])
       ]_vars

\* The run is over after a search request that raised, and of the articles
\* of its one batch some gave a record and some did not.
C12_Witness ==
  /\ pc = "done"
  /\ Last(esearch_calls).fault
  /\ Len(efetch_calls) = 1
  /\ Len(papers_data) > 0
  /\ art_idx > Len(papers_data)

\* C13: in a record, a company author with both name parts is named
\* "Fore Last", one with a last name only is named by it, and the name
\* "Unknown" is there only if some company author has no name part at all.
C13_AuthorNameByParts ==
  (call = "returned" /\ paper_data.some)
     => LET names == paper_data.rec.NonAcademicAuthors
            company == { x \in SeqToSet(article.authors) : IsCompanyAuthor(x) }
        IN  /\ \A author \in company :
                  /\ (Truthy(author.ForeName) /\ Truthy(author.LastName))
                        => (author.ForeName.text \o << " " >> \o author.LastName.text) \in names
                  /\ (~Truthy(author.ForeName) /\ Truthy(author.LastName))
                        => author.LastName.text \in names
                  /\ (~Truthy(author.ForeName) /\ ~Truthy(author.LastName))
                        => Unknown \in names
            /\ Unknown \in names
                  => \E author \in company :
                        ~Truthy(author.ForeName) /\ ~Truthy(author.LastName)

\* C14: an affiliation that has no academic-exclusion term and has, in any
\* letter case, the name of an entry of KNOWN_COMPANIES is classified true.
C14_KnownCompanyAccepted ==
  ( /\ call = "returned"
    /\ ~IsExcluded(Lower(affiliation))
    /\ \E c \in DOMAIN KNOWN_COMPANIES :
          Contains(Lower(affiliation), Lower(KNOWN_COMPANIES[c])) )
    => is_company = TRUE

\* C15: the k-th detail request carries the k-th slice of the pool, positions
\* (k-1)*100 + 1 to k*100 or to the end of the pool: a non-empty run of at
\* most 100 identifiers in pool order, so no position is sent twice. There
\* are at most ceil(|pool| / 100) requests, and exactly that many when the
\* run ends with the quota not reached.
C15_BatchesPartitionPool ==
  /\ \A k \in DOMAIN efetch_calls :
        LET lo == (k - 1) * 100 + 1
            hi == IF k * 100 < Len(pmids) THEN k * 100 ELSE Len(pmids)
            ids == efetch_calls[k].ids
        IN  /\ lo <= hi
            /\ Len(ids) <= 100
            /\ ids = SubSeq(pmids, lo, hi)
  /\ Len(efetch_calls) * 100 < Len(pmids) + 100
  /\ (pc = "done" /\ Len(papers_data) < max_results /\ pmids # << >>)
        => Len(efetch_calls) * 100 >= Len(pmids)

\* The run ended below the quota after two detail requests, the second one
\* for the short rest of the pool.
C15_Witness ==
  /\ pc = "done"
  /\ Len(papers_data) < max_results
  /\ Len(efetch_calls) = 2
  /\ Len(efetch_calls[1].ids) = 100
  /\ Len(efetch_calls[2].ids) = 99

====
